---- MODULE Spec2Model ----
(***************************************************************************)
(* Model of the two image-upload nodes of autotask_images:                 *)
(*   GiteeImageUploader  (src/gitee_images.py, REST variant)               *)
(*   PostImageUploader   (src/uploader_postimage.py, browser variant)      *)
(*                                                                         *)
(* Python strings are modelled as sequences of one-character strings, so   *)
(* that strip, split, `in`, basename, splitext and the anchored regular    *)
(* expressions are computed the way the code computes them.  Log and error *)
(* messages are sequences of text pieces (a fixed piece of an f-string is  *)
(* one element, an interpolated string contributes its characters).        *)
(***************************************************************************)
EXTENDS Integers, Sequences, FiniteSets, TLC

VARIABLES
    variant,      \* which entry point runs: "rest", "browser", or "parse"
    node_inputs,  \* the inputs mapping: img1..img8 and repo_url
    shape,        \* how repo_url was put together (prefix, body, suffix)
    now,          \* the wall clock, in seconds
    pc,           \* position of the running call
    parsed,       \* (owner, repo) as returned by _parse_repo_url
    target_dir,   \* the directory computed once per call by _get_target_dir
    idx,          \* position of the upload loop in image_paths
    results,      \* the results dictionary, and at "done" the returned one
    attempts,     \* the records returned by _upload_single_image, in order
    sent,         \* the POST requests issued, in order
    net,          \* the aiohttp session and the local file reads
    browser,      \* the Playwright driver, the browser, its navigations and
                  \* the text read from the share form
    log,          \* the lines given to workflow_logger
    run,          \* 1 for a first call, 2 for a repetition of it
    prev          \* what the first call sent and returned, kept for run 2

vars == <<variant, node_inputs, shape, now, pc, parsed, target_dir, idx, results,
          attempts, sent, net, browser, log, run, prev>>

(***************************************************************************)
(* Bounds of the model.                                                    *)
(***************************************************************************)
MaxPresent == 3
MaxBody == 4
MaxClock == 2
MaxWords == 3
MaxRerunPresent == 2

(***************************************************************************)
(* Strings.                                                                *)
(***************************************************************************)
Min(S) == CHOOSE x \in S : \A y \in S : x <= y
Max(S) == CHOOSE x \in S : \A y \in S : x >= y

Drop(s, n) == SubSeq(s, n + 1, Len(s))

StartsWith(s, p) == Len(p) <= Len(s) /\ SubSeq(s, 1, Len(p)) = p

EndsWith(s, p) == Len(p) <= Len(s) /\ SubSeq(s, Len(s) - Len(p) + 1, Len(s)) = p

\* Python's `sub in s`.
Contains(s, sub) ==
    \E i \in 1..(Len(s) - Len(sub) + 1) : SubSeq(s, i, i + Len(sub) - 1) = sub

\* Python's s.strip(chars).
Strip(s, chars) ==
    LET keep == {i \in 1..Len(s) : s[i] \notin chars}
    IN  IF keep = {} THEN <<>> ELSE SubSeq(s, Min(keep), Max(keep))

\* Python's s.split(c) for a one-character separator.
RECURSIVE Split(_, _)
Split(s, c) ==
    LET at == {i \in 1..Len(s) : s[i] = c}
    IN  IF at = {} THEN <<s>>
        ELSE <<SubSeq(s, 1, Min(at) - 1)>> \o Split(Drop(s, Min(at)), c)

RECURSIVE Flatten(_)
Flatten(ss) == IF ss = <<>> THEN <<>> ELSE Head(ss) \o Flatten(Tail(ss))

Whitespace == {" "}
DOTGIT == <<".", "g", "i", "t">>
HOST == <<"g", "i", "t", "e", "e", ".", "c", "o", "m">>
SSH_PREFIX == <<"g", "i", "t", "@">> \o HOST \o <<":">>
HTTPS == <<"h", "t", "t", "p", "s", ":", "/", "/">>
HTTP == <<"h", "t", "t", "p", ":", "/", "/">>
GITPROTO == <<"g", "i", "t", ":", "/", "/">>
Schemes == {HTTPS, HTTP, GITPROTO}

\* The value a dictionary lookup has when the key is not in the dictionary.
NoKey == <<"<no key>">>

(***************************************************************************)
(* _parse_repo_url                                                         *)
(***************************************************************************)
ParseError == [ok |-> FALSE, owner |-> <<>>, repo |-> <<>>]
Parsed(o, r) == [ok |-> TRUE, owner |-> o, repo |-> r]

\* MatchOwnerRepo with a greedy second group: a trailing ".git" stays.
MatchOwnerRepoGreedy(rest) ==
    LET parts == Split(rest, "/")
    IN  IF Len(parts) = 2 /\ parts[1] # <<>> /\ parts[2] # <<>>
        THEN Parsed(parts[1], parts[2])
        ELSE ParseError

\* The tail both regular expressions share: ([^/]+)/([^/]+?)(\.git)?$
\* The lazy second group gives up a trailing ".git" whenever something is
\* left in front of it.
MatchOwnerRepo(rest) ==
    LET parts == Split(rest, "/")
    IN  IF Len(parts) = 2 /\ parts[1] # <<>> /\ parts[2] # <<>>
        THEN Parsed(parts[1],
                    IF EndsWith(parts[2], DOTGIT) /\ Len(parts[2]) > Len(DOTGIT)
                    THEN SubSeq(parts[2], 1, Len(parts[2]) - Len(DOTGIT))
                    ELSE parts[2])
        ELSE ParseError

\* Case 1: the simple form, taken whenever the string has a '/' and none of
\* ':', '@', 'gitee.com'; the first two segments are returned.
SimpleCase(url) ==
    LET parts == Split(url, "/")
    IN  IF Len(parts) >= 2 THEN Parsed(parts[1], parts[2]) ELSE ParseError

IsSimple(url) ==
    /\ Contains(url, <<"/">>)
    /\ ~ \E x \in {<<":">>, <<"@">>, HOST} : Contains(url, x)

\* Case 2: ^git@gitee\.com:([^/]+)/([^/]+?)(\.git)?$
SshCase(url) ==
    IF StartsWith(url, SSH_PREFIX)
    THEN MatchOwnerRepo(Drop(url, Len(SSH_PREFIX)))
    ELSE ParseError

\* Case 3: ^(https?://|git://)?gitee\.com/([^/]+)/([^/]+?)(\.git)?$
HttpsCase(url) ==
    LET scheme == {s \in Schemes : StartsWith(url, s)}
        rest == IF scheme = {} THEN url
                ELSE Drop(url, Len(CHOOSE s \in scheme : TRUE))
    IN  IF StartsWith(rest, HOST \o <<"/">>)
        THEN MatchOwnerRepo(Drop(rest, Len(HOST) + 1))
        ELSE ParseError

Trimmed(repo_url) == Strip(Strip(repo_url, Whitespace), {"/"})

_parse_repo_url(repo_url) ==
    LET url == Trimmed(repo_url)
    IN  IF IsSimple(url) /\ SimpleCase(url).ok THEN SimpleCase(url)
        ELSE IF SshCase(url).ok THEN SshCase(url)
        ELSE IF HttpsCase(url).ok THEN HttpsCase(url)
        ELSE ParseError

(***************************************************************************)
(* Paths, the clock and destination file names.                            *)
(***************************************************************************)
NumSlots == 8
Slots == 1..NumSlots

Digits == <<"0", "1", "2", "3", "4", "5", "6", "7", "8", "9">>
Digit(n) == Digits[n + 1]

\* str(n) for n >= 0.
RECURSIVE IntText(_)
IntText(n) == IF n < 10 THEN <<Digit(n)>> ELSE IntText(n \div 10) \o <<Digit(n % 10)>>

\* n written with at least w digits, as {n:0w} and strftime's fields do.
RECURSIVE ZeroPad(_, _)
ZeroPad(n, w) == IF Len(IntText(n)) >= w THEN IntText(n) ELSE <<"0">> \o ZeroPad(n, w - 1)

\* os.path.basename: what follows the last '/'.
basename(path) ==
    LET at == {i \in 1..Len(path) : path[i] = "/"}
    IN  IF at = {} THEN path ELSE Drop(path, Max(at))

\* os.path.splitext: the extension starts at the last '.', unless only dots
\* stand between the start of the last component and that dot.
splitext(p) ==
    LET seps == {i \in 1..Len(p) : p[i] = "/"}
        dots == {i \in 1..Len(p) : p[i] = "."}
        sepIndex == IF seps = {} THEN 0 ELSE Max(seps)
        dotIndex == IF dots = {} THEN 0 ELSE Max(dots)
    IN  IF dotIndex > sepIndex
           /\ \E j \in (sepIndex + 1)..(dotIndex - 1) : p[j] # "."
        THEN <<SubSeq(p, 1, dotIndex - 1), Drop(p, dotIndex - 1)>>
        ELSE <<p, <<>> >>

\* datetime.now().strftime("%Y%m%d_%H%M%S"), the clock counting seconds from
\* midnight of day 0; the date field is the day count written on 8 digits.
SecondsPerDay == 86400
strftime(t) ==
    LET sod == t % SecondsPerDay
    IN  ZeroPad(t \div SecondsPerDay, 8) \o <<"_">>
        \o ZeroPad(sod \div 3600, 2) \o ZeroPad((sod % 3600) \div 60, 2)
        \o ZeroPad(sod % 60, 2)

\* _get_timestamped_filename stamping the date alone.
_get_timestamped_filename_dateonly(original_filename, t) ==
    LET ne == splitext(original_filename)
    IN  ne[1] \o <<"_">> \o ZeroPad(t \div SecondsPerDay, 8) \o ne[2]

_get_timestamped_filename(original_filename, t) ==
    LET ne == splitext(original_filename)
    IN  ne[1] \o <<"_">> \o strftime(t) \o ne[2]

\* images/{year}/{month:02d}/{day:02d}, with the same day count as strftime.
_get_target_dir(t) == <<"images/">> \o ZeroPad(t \div SecondsPerDay, 8)

(***************************************************************************)
(* Inputs.                                                                 *)
(***************************************************************************)
\* The file each slot names when it names one.
PathOf(i) ==
    CASE i % 3 = 1 -> <<"d", "/", "a", ".", "p">>
      [] i % 3 = 2 -> <<"b">>
      [] OTHER     -> <<".", "h">>

\* img1..img8: at most MaxPresent slots name a file; the others are all
\* empty strings or all missing keys.
ImgInputs ==
    { [i \in Slots |-> IF i \in S THEN PathOf(i) ELSE absent] :
        S \in {T \in SUBSET Slots : Cardinality(T) <= MaxPresent},
        absent \in {<<>>, NoKey} }

NoShape == [prefix |-> <<>>, body |-> <<>>, suffix |-> <<>>]
ShapeText(sh) == sh.prefix \o Flatten(sh.body) \o sh.suffix

\* The repository locators the two execute() entry points are run with.
BareShape == [prefix |-> <<>>, body |-> << <<"a">>, <<"/">>, <<"b">> >>, suffix |-> <<>>]

RepoShapes ==
    { BareShape,
      [prefix |-> HTTPS \o HOST \o <<"/">>,
       body |-> << <<"a">>, <<"/">>, <<"b">> >>, suffix |-> DOTGIT],
      [prefix |-> <<>>, body |-> << <<"a">>, <<"b">> >>, suffix |-> <<>>],
      [prefix |-> <<>>, body |-> << <<"a">>, <<"/">>, <<"/">>, <<"b">> >>,
       suffix |-> <<>>] }

\* _get_valid_image_paths: the (index, path) pairs of the slots whose key is
\* in the inputs with a non-empty value, in ascending index order.
RECURSIVE ValidFrom(_, _)
ValidFrom(imgs, i) ==
    IF i > NumSlots THEN <<>>
    ELSE (IF imgs[i] # NoKey /\ imgs[i] # <<>>
          THEN <<[index |-> i, path |-> imgs[i]]>> ELSE <<>>)
         \o ValidFrom(imgs, i + 1)

\* _get_valid_image_paths testing only that the key is in the inputs.
RECURSIVE KeyedFrom(_, _)
KeyedFrom(imgs, i) ==
    IF i > NumSlots THEN <<>>
    ELSE (IF imgs[i] # NoKey THEN <<[index |-> i, path |-> imgs[i]]>> ELSE <<>>)
         \o KeyedFrom(imgs, i + 1)

_get_valid_image_paths_keyonly(inputs) == KeyedFrom(inputs.img, 1)

_get_valid_image_paths(inputs) == ValidFrom(inputs.img, 1)

image_paths == _get_valid_image_paths(node_inputs)

(***************************************************************************)
(* Result dictionaries and messages.                                       *)
(***************************************************************************)
EmptyUrls == [i \in Slots |-> <<>>]

\* The REST node reports success as a Python bool ("True"/"False" here), the
\* browser node as the strings "true"/"false".
NoResults == [url |-> EmptyUrls, success |-> "unset", error_message |-> <<>>]

Line(level, text) == [level |-> level, text |-> text]

MSG_NO_IMAGES == <<"At least one image path must be provided">>
MSG_INVALID_REPO ==
    <<"Invalid repository URL format. Supported formats: owner/repo, https://gitee.com/owner/repo, git@gitee.com:owner/repo">>
MSG_KEY_ERROR == <<"'repo_url'">>

\* The outer handler of GiteeImageUploader.execute.
RestHandler(e) ==
    [url |-> EmptyUrls, success |-> "False",
     error_message |-> <<"Failed to process images: ">> \o e]

(***************************************************************************)
(* The REST variant: GiteeImageUploader.                                   *)
(***************************************************************************)
StatusText(status) == IntText(status)

\* What the service answers to one POST: a status and a JSON body that has
\* content.download_url or lacks it.  The URL it reports is the raw URL of
\* the file the request created.
DownloadUrl(api_url) == <<"https://gitee.com/raw/">> \o api_url
Responses == [status : {200, 201, 404}, has_url : BOOLEAN]

ApiUrl(owner, repo, dir, filename) ==
    <<"https://gitee.com/api/v5/repos/">> \o owner \o <<"/">> \o repo
    \o <<"/contents/">> \o dir \o <<"/">> \o filename

\* UploadFailure leaving the slot index out of the message.
UploadFailureNoIndex(index, image_path, e) ==
    <<"Failed to upload image (">> \o basename(image_path) \o <<"): ">> \o e

UploadFailure(index, image_path, e) ==
    <<"Failed to upload image ">> \o IntText(index) \o <<" (">>
    \o basename(image_path) \o <<"): ">> \o e

\* str() of the exception open() raises for a file that cannot be read.
MSG_ERRNO == <<"[Errno 2] No such file or directory: '">>

\* RequestsOnReadError with the request sent before the file is opened.
RequestsOnReadErrorPostFirst(request) == <<request>>

\* The requests of a call whose open()/read() raised: the exception leaves
\* the try block before session.post is reached.
RequestsOnReadError(request) == <<>>

\* _upload_single_image: the record it returns, the requests it issued and
\* the line it logged.  `readable` says whether open()/read() succeed.
_upload_single_image(image_path, owner, repo, dir, index, t, readable, response) ==
    LET original_filename == basename(image_path)
        filename == _get_timestamped_filename(original_filename, t)
        api_url == ApiUrl(owner, repo, dir, filename)
        request == [index |-> index, filename |-> filename, api_url |-> api_url,
                    t |-> t]
        failed(e, requests) ==
            [result |-> [index |-> index, success |-> FALSE, url |-> NoKey,
                         error_message |-> UploadFailure(index, image_path, e)],
             requests |-> requests,
             line |-> Line("error", UploadFailure(index, image_path, e))]
    IN  IF ~readable
        THEN failed(MSG_ERRNO \o image_path \o <<"'">>,
                    RequestsOnReadError(request))
        ELSE IF response.status \notin {200, 201}
        THEN failed(<<"API request failed with status ">>
                    \o StatusText(response.status) \o <<": <response text>">>,
                    <<request>>)
        ELSE IF ~response.has_url
        THEN failed(<<"Invalid API response format: <response text>">>, <<request>>)
        ELSE [result |-> [index |-> index, success |-> TRUE,
                          url |-> DownloadUrl(api_url), error_message |-> NoKey],
              requests |-> <<request>>,
              line |-> Line("info", <<"Successfully uploaded image ">>
                                    \o IntText(index) \o <<": ">> \o filename)]

\* execute, up to the opening of the session: validation, parsing, the two
\* info lines and the fresh results dictionary; any exception goes to the
\* outer handler, which logs it and returns the all-empty failure record.
RestRaise(e) ==
    /\ results' = RestHandler(e)
    /\ log' = Append(log, Line("error", RestHandler(e).error_message))
    /\ pc' = "done"

RestBegin ==
    /\ variant = "rest" /\ pc = "start"
    /\ IF image_paths = <<>>
       THEN RestRaise(MSG_NO_IMAGES) /\ UNCHANGED <<parsed, target_dir, idx, net>>
       ELSE IF node_inputs.repo_url = NoKey
       THEN RestRaise(MSG_KEY_ERROR) /\ UNCHANGED <<parsed, target_dir, idx, net>>
       ELSE IF ~ _parse_repo_url(node_inputs.repo_url).ok
       THEN RestRaise(MSG_INVALID_REPO) /\ UNCHANGED <<parsed, target_dir, idx, net>>
       ELSE /\ parsed' = _parse_repo_url(node_inputs.repo_url)
            /\ target_dir' = _get_target_dir(now)
            /\ log' = log \o
                 << Line("info", <<"Uploading ">> \o IntText(Len(image_paths))
                                 \o <<" images to Gitee repository: ">>
                                 \o parsed'.owner \o <<"/">> \o parsed'.repo),
                    Line("info", <<"Target directory: ">> \o target_dir') >>
            /\ results' = [url |-> EmptyUrls, success |-> "True",
                           error_message |-> <<>>]
            /\ net' = [net EXCEPT !.session = "open"]
            /\ idx' = 1
            /\ pc' = "loop"
    /\ UNCHANGED <<variant, node_inputs, shape, now, attempts, sent, browser,
                   run, prev>>

\* One turn of the upload loop: one call of _upload_single_image and the
\* folding of its record into results; a failure breaks out of the loop.
\* RestFold recording the message of a failure but not the failure.
RestFoldKeepsSuccess(res, result) ==
    IF result.success
    THEN [res EXCEPT !.url[result.index] = result.url]
    ELSE [res EXCEPT !.error_message = result.error_message]

RestFold(res, result) ==
    IF result.success
    THEN [res EXCEPT !.url[result.index] = result.url]
    ELSE [res EXCEPT !.success = "False", !.error_message = result.error_message]

\* RestContinues without the break.
RestContinuesAfterFailure(result, position) == position < Len(image_paths)

RestContinues(result, position) == result.success /\ position < Len(image_paths)

RestUpload ==
    /\ variant = "rest" /\ pc = "loop"
    /\ \E readable \in BOOLEAN, response \in Responses :
         LET item == image_paths[idx]
             up == _upload_single_image(item.path, parsed.owner, parsed.repo,
                                        target_dir, item.index, now,
                                        readable, response)
         IN  /\ attempts' = Append(attempts, up.result)
             /\ sent' = sent \o up.requests
             /\ net' = [net EXCEPT !.reads = @ + 1]
             /\ log' = Append(log, up.line)
             /\ results' = RestFold(results, up.result)
             /\ IF RestContinues(up.result, idx)
                THEN idx' = idx + 1 /\ pc' = "loop"
                ELSE idx' = idx /\ pc' = "exit"
    /\ UNCHANGED <<variant, node_inputs, shape, now, parsed, target_dir, browser,
                   run, prev>>

\* Leaving the session block and returning results.
RestReturn ==
    /\ variant = "rest" /\ pc = "exit"
    /\ net' = [net EXCEPT !.session = "closed"]
    /\ log' = IF results.success = "True"
              THEN Append(log, Line("info", <<"All images uploaded successfully">>))
              ELSE log
    /\ pc' = "done"
    /\ UNCHANGED <<variant, node_inputs, shape, now, parsed, target_dir, idx,
                   results, attempts, sent, browser, run, prev>>

(***************************************************************************)
(* The browser variant: PostImageUploader.                                 *)
(***************************************************************************)
POSTIMG == "https://i.postimg.cc/"
DL == <<"?", "d", "l", "=", "1">>

\* The words the share form's text box may hold.
Words ==
    { <<"j", "u", "n", "k">>,
      <<POSTIMG, "k", "/", "a">>,
      <<POSTIMG, "k", "/", "b">> \o DL,
      <<POSTIMG, "k", "/", "c">> \o DL \o DL }

\* Sequences over S of length at most n.
RECURSIVE SeqsUpTo(_, _)
SeqsUpTo(S, n) ==
    IF n = 0 THEN {<<>>}
    ELSE LET shorter == SeqsUpTo(S, n - 1)
         IN  shorter \cup {Append(q, x) : q \in shorter, x \in S}

Texts == SeqsUpTo(Words, MaxWords)

\* One match of https://i\.postimg\.cc/\w+/[^\s\n]+ : the host, a token, a
\* slash and at least one more character.
IsDirectUrl(w) ==
    /\ Len(w) >= 4 /\ w[1] = POSTIMG /\ w[2] # "/"
    /\ \E i \in 3..(Len(w) - 1) : w[i] = "/" /\ \A j \in 2..(i - 1) : w[j] # "/"

\* re.findall over the text box.
findall(text_content) == SelectSeq(text_content, IsDirectUrl)

\* What the page does during _upload_images: a wait or a step raises, or the
\* text box is read.
PageFailures ==
    { <<"Page.goto: net::ERR_NAME_NOT_RESOLVED">>,
      <<"Timeout 30000ms exceeded.">>,
      <<"Timeout 120000ms exceeded.">> }
Pages == [fails : BOOLEAN, error : PageFailures, text_content : Texts]

PostBatchFailure(e) ==
    [url |-> EmptyUrls, success |-> "false",
     error_message |-> <<"Failed to upload images: ">> \o e]

\* WithDl with the suffix appended to every URL.
WithDlAlways(url) == url \o DL

\* if not url.endswith('?dl=1'): url += '?dl=1'
WithDl(url) == IF EndsWith(url, DL) THEN url ELSE url \o DL

\* for (index, path), url in zip(image_paths, direct_urls)
RECURSIVE ZipUrls(_, _, _)
ZipUrls(res, paths, urls) ==
    IF paths = <<>> \/ urls = <<>> THEN res
    ELSE ZipUrls([res EXCEPT !.url[Head(paths).index] = WithDl(Head(urls))],
                 Tail(paths), Tail(urls))

UploadedLines(paths) ==
    [k \in 1..Len(paths) |->
        Line("info", <<"Successfully uploaded image ">> \o IntText(paths[k].index)
                     \o <<": ">> \o basename(paths[k].path))]

\* CountMismatch testing only that something was extracted.
CountMismatchEmptyOnly(paths, direct_urls) == direct_urls = <<>>

CountMismatch(paths, direct_urls) ==
    direct_urls = <<>> \/ Len(direct_urls) # Len(paths)

\* _upload_images: the dictionary it returns and the lines it logs.
_upload_images(paths, page) ==
    LET direct_urls == findall(page.text_content)
        failure(e) == [results |-> PostBatchFailure(e),
                       lines |-> <<Line("error", PostBatchFailure(e).error_message)>>]
    IN  IF page.fails THEN failure(page.error)
        ELSE IF CountMismatch(paths, direct_urls)
        THEN failure(<<"Expected ">> \o IntText(Len(paths)) \o <<" URLs but found ">>
                     \o IntText(Len(direct_urls)))
        ELSE [results |-> ZipUrls([url |-> EmptyUrls, success |-> "true",
                                   error_message |-> <<>>], paths, direct_urls),
              lines |-> UploadedLines(paths)]

\* The outer handler of PostImageUploader.execute.
PostHandler(e) ==
    [url |-> EmptyUrls, success |-> "false",
     error_message |-> <<"Failed to process images: ">> \o e]

\* PlaywrightExit stopping the driver and leaving its browser as it is.
PlaywrightExitLeak(b) == [b EXCEPT !.playwright = "stopped"]

\* Leaving the `async with async_playwright()` block stops the Playwright
\* driver, and with it every browser the driver launched.
PlaywrightExit(b) ==
    [b EXCEPT !.playwright = "stopped",
              !.browser = IF @ = "open" THEN "closed" ELSE @]

PostRaise(e) ==
    /\ results' = PostHandler(e)
    /\ log' = Append(log, Line("error", PostHandler(e).error_message))
    /\ pc' = "done"

PostBegin ==
    /\ variant = "browser" /\ pc = "start"
    /\ IF image_paths = <<>>
       THEN PostRaise(MSG_NO_IMAGES)
       ELSE /\ log' = Append(log, Line("info", <<"Uploading ">>
                                \o IntText(Len(image_paths))
                                \o <<" images to PostImage">>))
            /\ pc' = "launch"
            /\ UNCHANGED results
    /\ UNCHANGED <<variant, node_inputs, shape, now, parsed, target_dir, idx,
                   attempts, sent, net, browser, run, prev>>

\* async_playwright() is entered and chromium.launch is awaited.
PostLaunch ==
    /\ variant = "browser" /\ pc = "launch"
    /\ \E ok \in BOOLEAN :
         IF ok
         THEN /\ browser' = [browser EXCEPT !.playwright = "running",
                                            !.browser = "open", !.launches = @ + 1]
              /\ pc' = "context"
              /\ UNCHANGED <<results, log>>
         ELSE /\ browser' = PlaywrightExit([browser EXCEPT !.playwright = "running"])
              /\ PostRaise(<<"BrowserType.launch: Executable doesn't exist">>)
    /\ UNCHANGED <<variant, node_inputs, shape, now, parsed, target_dir, idx,
                   attempts, sent, net, run, prev>>

\* browser.new_context() and context.new_page().
PostNewContext ==
    /\ variant = "browser" /\ pc = "context"
    /\ \E ok \in BOOLEAN :
         IF ok
         THEN pc' = "page" /\ UNCHANGED <<results, log, browser>>
         ELSE /\ browser' = PlaywrightExit(browser)
              /\ PostRaise(<<"Browser.new_context: Target closed">>)
    /\ UNCHANGED <<variant, node_inputs, shape, now, parsed, target_dir, idx,
                   attempts, sent, net, run, prev>>

PostNewPage ==
    /\ variant = "browser" /\ pc = "page"
    /\ \E ok \in BOOLEAN :
         IF ok
         THEN pc' = "upload" /\ UNCHANGED <<results, log, browser>>
         ELSE /\ browser' = PlaywrightExit(browser)
              /\ PostRaise(<<"BrowserContext.new_page: Target closed">>)
    /\ UNCHANGED <<variant, node_inputs, shape, now, parsed, target_dir, idx,
                   attempts, sent, net, run, prev>>

\* results = await self._upload_images(page, image_paths, workflow_logger)
PostUploadImages ==
    /\ variant = "browser" /\ pc = "upload"
    /\ \E page \in Pages :
         LET up == _upload_images(image_paths, page)
         IN  /\ results' = up.results
             /\ log' = log \o up.lines
             /\ browser' = [browser EXCEPT
                             !.gotos = @ + 1,
                             !.text_content = IF page.fails THEN NoKey
                                              ELSE page.text_content]
    /\ pc' = "close"
    /\ UNCHANGED <<variant, node_inputs, shape, now, parsed, target_dir, idx,
                   attempts, sent, net, run, prev>>

\* await browser.close(), the end of the block, return results.
PostClose ==
    /\ variant = "browser" /\ pc = "close"
    /\ browser' = PlaywrightExit([browser EXCEPT !.browser = "closed"])
    /\ pc' = "done"
    /\ UNCHANGED <<variant, node_inputs, shape, now, parsed, target_dir, idx,
                   results, attempts, sent, net, log, run, prev>>

(***************************************************************************)
(* The specification of one call of either execute().                      *)
(***************************************************************************)
Idle ==
    /\ pc = "start" /\ now = 0 /\ run = 1
    /\ parsed = ParseError /\ target_dir = <<>> /\ idx = 0
    /\ results = NoResults /\ attempts = <<>> /\ sent = <<>> /\ log = <<>>
    /\ net = [session |-> "none", reads |-> 0]
    /\ browser = [playwright |-> "none", browser |-> "none", launches |-> 0,
                  gotos |-> 0, text_content |-> NoKey]
    /\ prev = [sent |-> <<>>, results |-> NoResults]

Init ==
    /\ Idle
    /\ \/ /\ variant = "rest"
          /\ \E img \in ImgInputs :
               \/ \E sh \in RepoShapes :
                    /\ shape = sh
                    /\ node_inputs = [img |-> img, repo_url |-> ShapeText(sh)]
               \/ /\ shape = NoShape
                  /\ node_inputs = [img |-> img, repo_url |-> NoKey]
       \/ /\ variant = "browser"
          /\ shape = NoShape
          /\ \E img \in ImgInputs : node_inputs = [img |-> img, repo_url |-> NoKey]

Next ==
    \/ RestBegin \/ RestUpload \/ RestReturn
    \/ PostBegin \/ PostLaunch \/ PostNewContext \/ PostNewPage
    \/ PostUploadImages \/ PostClose

Spec == Init /\ [][Next]_vars

(***************************************************************************)
(* _parse_repo_url called on its own, over locators put together from a    *)
(* prefix, a body of at most MaxBody pieces and a suffix.                  *)
(***************************************************************************)
Prefixes ==
    { <<>>, SSH_PREFIX, HOST \o <<"/">>, HTTPS \o HOST \o <<"/">>,
      HTTP \o HOST \o <<"/">>, GITPROTO \o HOST \o <<"/">> }
Chunks == { <<"a">>, <<"b">>, <<"/">>, DOTGIT, <<"@">> }
Suffixes == { <<>>, <<"/">>, DOTGIT, DOTGIT \o <<"/">>, <<" ">> }

ParseShapes == [prefix : Prefixes, body : SeqsUpTo(Chunks, MaxBody), suffix : Suffixes]

InitParse ==
    /\ Idle
    /\ variant = "parse"
    /\ \E sh \in ParseShapes :
         /\ shape = sh
         /\ node_inputs = [img |-> [i \in Slots |-> NoKey], repo_url |-> ShapeText(sh)]

ParseCall ==
    /\ variant = "parse" /\ pc = "start"
    /\ parsed' = _parse_repo_url(node_inputs.repo_url)
    /\ pc' = IF parsed'.ok THEN "returned" ELSE "raised"
    /\ UNCHANGED <<variant, node_inputs, shape, now, target_dir, idx, results,
                   attempts, sent, net, browser, log, run, prev>>

NextParse == ParseCall

SpecParse == InitParse /\ [][NextParse]_vars

(***************************************************************************)
(* A successful REST call repeated with the same inputs, the clock         *)
(* advancing by whole seconds at any point.                                *)
(***************************************************************************)
RerunInputs ==
    {img \in ImgInputs :
        Cardinality({i \in Slots : img[i] # NoKey /\ img[i] # <<>>}) <= MaxRerunPresent}

InitRerun ==
    /\ Idle
    /\ variant = "rest"
    /\ shape = BareShape
    /\ \E img \in RerunInputs :
         node_inputs = [img |-> img, repo_url |-> ShapeText(BareShape)]

Tick ==
    /\ now < MaxClock
    /\ ~ (run = 2 /\ pc = "done")
    /\ now' = now + 1
    /\ UNCHANGED <<variant, node_inputs, shape, pc, parsed, target_dir, idx,
                   results, attempts, sent, net, browser, log, run, prev>>

\* The workflow engine calls execute again with the same node_inputs.
Rerun ==
    /\ variant = "rest" /\ pc = "done" /\ run = 1
    /\ results.success = "True"
    /\ prev' = [sent |-> sent, results |-> results]
    /\ run' = 2
    /\ pc' = "start" /\ parsed' = ParseError /\ target_dir' = <<>> /\ idx' = 0
    /\ results' = NoResults /\ attempts' = <<>> /\ sent' = <<>> /\ log' = <<>>
    /\ net' = [session |-> "none", reads |-> 0]
    /\ UNCHANGED <<variant, node_inputs, shape, now, browser>>

NextRerun == RestBegin \/ RestUpload \/ RestReturn \/ Tick \/ Rerun

SpecRerun == InitRerun /\ [][NextRerun]_vars

(***************************************************************************)
(* Properties.                                                             *)
(***************************************************************************)
Present(i) == node_inputs.img[i] # NoKey /\ node_inputs.img[i] # <<>>
NonePresent == \A i \in Slots : ~Present(i)
Failed(r) == r.success \in {"False", "false"}
Succeeded(r) == r.success \in {"True", "true"}
AllUrlsEmpty(r) == \A i \in Slots : r.url[i] = <<>>
FailureOutcome(r) == Failed(r) /\ AllUrlsEmpty(r) /\ r.error_message # <<>>
NoRestIO == net.session = "none" /\ net.reads = 0 /\ sent = <<>>
NoBrowserIO ==
    browser.playwright = "none" /\ browser.launches = 0 /\ browser.gotos = 0
FailedAttempts == {j \in 1..Len(attempts) : ~attempts[j].success}

\* C1: in the REST variant, when the first failing upload is that of present
\* slot k, every present slot below k holds the URL its own upload returned,
\* every slot from k on and every absent slot holds an empty URL, nothing
\* was attempted or sent for a slot above k, success is false and
\* error_message is the failure message of slot k.
C1_FirstFailureStopsTheBatch ==
    (variant = "rest" /\ pc = "done" /\ FailedAttempts # {}) =>
        LET j == Min(FailedAttempts)
            k == attempts[j].index
        IN  /\ Present(k)
            /\ \A i \in Slots : (Present(i) /\ i < k) =>
                 \E a \in 1..(j - 1) :
                    /\ attempts[a].index = i /\ attempts[a].success
                    /\ results.url[i] = attempts[a].url
                    /\ results.url[i] # <<>>
            /\ \A i \in Slots : (i >= k \/ ~Present(i)) => results.url[i] = <<>>
            /\ \A a \in 1..Len(attempts) : attempts[a].index <= k
            /\ \A q \in 1..Len(sent) : sent[q].index <= k
            /\ results.success = "False"
            /\ results.error_message = attempts[j].error_message

\* Slots 1, 4 and 7 are present and the second upload, that of slot 4, failed.
C1_Witness ==
    /\ variant = "rest" /\ pc = "done"
    /\ {i \in Slots : Present(i)} = {1, 4, 7}
    /\ Len(attempts) = 2 /\ attempts[1].success /\ ~attempts[2].success
    /\ attempts[2].index = 4
    /\ results.url[1] # <<>> /\ results.url[4] = <<>> /\ results.url[7] = <<>>

\* C2: in both variants, when no slot is present (every key missing or
\* empty), no session is opened, no file is read, no request is sent, no
\* browser is launched and no page is visited in any state of the call, and
\* the call returns a failure with every URL empty and a message.
C2_NoImagesFailsBeforeAnyIO ==
    (variant \in {"rest", "browser"} /\ NonePresent) =>
        /\ NoRestIO /\ NoBrowserIO
        /\ pc \in {"start", "done"}
        /\ pc = "done" => FailureOutcome(results)

C2_Witness ==
    /\ variant = "browser" /\ pc = "done" /\ NonePresent
    /\ node_inputs.img[1] = <<>>
    /\ FailureOutcome(results)

\* The three shapes of a repository locator: owner/repo, the SSH pattern and
\* the URL pattern, each matching the whole trimmed string.
StrictBare(url) ==
    /\ IsSimple(url)
    /\ Len(Split(url, "/")) = 2
    /\ Split(url, "/")[1] # <<>> /\ Split(url, "/")[2] # <<>>
AcceptedShape(repo_url) ==
    LET url == Trimmed(repo_url)
    IN  StrictBare(url) \/ SshCase(url).ok \/ HttpsCase(url).ok

\* C3: in the REST variant, when a slot is present and repo_url is missing
\* or has none of the three accepted shapes, no session is opened, no file
\* is read and no request is sent, and the call returns a failure with every
\* URL empty and a message.
C3_MalformedLocatorFailsBeforeAnyIO ==
    (/\ variant = "rest" /\ ~NonePresent
     /\ (node_inputs.repo_url = NoKey \/ ~AcceptedShape(node_inputs.repo_url))) =>
        /\ NoRestIO
        /\ pc \in {"start", "done"}
        /\ pc = "done" => FailureOutcome(results)

(***************************************************************************)
(* Properties of _parse_repo_url, under SpecParse.                         *)
(***************************************************************************)
\* The locator is <prefix> owner "/" repo <suffix>: its body has one "/"
\* piece, with pieces on both sides.
SlashAt == {i \in 1..Len(shape.body) : shape.body[i] = <<"/">>}
OwnerRepoBody ==
    /\ Cardinality(SlashAt) = 1
    /\ \A i \in SlashAt : 1 < i /\ i < Len(shape.body)
ShapeOwner == Flatten(SubSeq(shape.body, 1, Min(SlashAt) - 1))
ShapeRepo == Flatten(Drop(shape.body, Min(SlashAt)))
FormSuffixes == { <<>>, <<"/">>, DOTGIT, DOTGIT \o <<"/">> }

\* A name the three forms can all carry: no '/', ':', '@' or whitespace and
\* no 'gitee.com' inside it.
PlainName(n) ==
    /\ n # <<>>
    /\ \A i \in 1..Len(n) : n[i] \notin {"/", ":", "@"} \cup Whitespace
    /\ ~Contains(n, HOST)

\* C4, as stated: the bare form, the SSH form and the URL form, each with or
\* without a trailing slash and with or without a trailing .git, all yield
\* (owner, repo); read here for the names all three forms can carry.
C4_AllFormsAgree ==
    (/\ variant = "parse" /\ pc # "start"
     /\ OwnerRepoBody /\ shape.suffix \in FormSuffixes
     /\ PlainName(ShapeOwner) /\ PlainName(ShapeRepo)
     /\ ~EndsWith(ShapeRepo, DOTGIT)) =>
        parsed = Parsed(ShapeOwner, ShapeRepo)

\* C4, amended: for owner and repo names without '/', ':', '@', whitespace
\* or 'gitee.com', the repo name not ending in .git, the bare form
\* owner/repo, the SSH form and the URL form (with or without a scheme)
\* yield (owner, repo), each with or without a trailing slash, the SSH and
\* URL forms also with or without a trailing .git.
C4_FormsAgreeOnPlainNames ==
    (/\ variant = "parse" /\ pc # "start"
     /\ OwnerRepoBody /\ shape.suffix \in FormSuffixes
     /\ PlainName(ShapeOwner) /\ PlainName(ShapeRepo)
     /\ ~EndsWith(ShapeRepo, DOTGIT)
     /\ shape.prefix = <<>> => shape.suffix \in {<<>>, <<"/">>}) =>
        parsed = Parsed(ShapeOwner, ShapeRepo)

\* git@gitee.com:a/b.git/ was parsed.
C4_Witness ==
    /\ variant = "parse" /\ pc = "returned"
    /\ shape.prefix = SSH_PREFIX /\ shape.suffix = DOTGIT \o <<"/">>
    /\ shape.body = << <<"a">>, <<"/">>, <<"b">> >>
    /\ parsed = Parsed(<<"a">>, <<"b">>)

\* The trimmed input is exactly one of the three shapes around (o, r).
ConsumedBy(url, o, r) ==
    \/ url = o \o <<"/">> \o r
    \/ \E p \in Prefixes \ {<<>>}, git \in {<<>>, DOTGIT} :
         url = p \o o \o <<"/">> \o r \o git

\* C5: whenever _parse_repo_url returns, owner and repo are non-empty, hold
\* no '/', and the whole trimmed input was consumed by the matched shape.
C5_ReturnedPairIsWhole ==
    (variant = "parse" /\ pc = "returned") =>
        /\ parsed.owner # <<>> /\ parsed.repo # <<>>
        /\ ~Contains(parsed.owner, <<"/">>) /\ ~Contains(parsed.repo, <<"/">>)
        /\ ConsumedBy(Trimmed(node_inputs.repo_url), parsed.owner, parsed.repo)

(***************************************************************************)
(* Properties of the browser variant and of both variants' outcomes.       *)
(***************************************************************************)
Extracted == findall(browser.text_content)

\* C6: in the browser variant, whenever the number of direct links
\* extracted from the text differs from the number of submitted files, the
\* outcome is a failure with every URL empty.
C6_CountMismatchFailsWhole ==
    (/\ variant = "browser" /\ pc \in {"close", "done"}
     /\ browser.text_content # NoKey
     /\ Len(Extracted) # Len(image_paths)) =>
        FailureOutcome(results)

\* Three files were submitted and two links were extracted.
C6_Witness ==
    /\ variant = "browser" /\ pc = "done"
    /\ browser.text_content # NoKey
    /\ Len(image_paths) = 3 /\ Len(Extracted) = 2
    /\ FailureOutcome(results)

Positions ==
    {"start", "loop", "exit", "launch", "context", "page", "upload", "close", "done"}

\* C8: in both variants the call always ends by returning a record with
\* url1..url8, success and error_message, whose message is empty when
\* success is true and non-empty when it is false; every position short of
\* the return is one its variant has a step for.
C8_AlwaysReturnsAWellFormedRecord ==
    (variant \in {"rest", "browser"}) =>
        /\ pc \in Positions
        /\ pc = "loop" => idx \in 1..Len(image_paths)
        /\ pc \in {"loop", "exit"} => variant = "rest"
        /\ pc \in {"launch", "context", "page", "upload", "close"} =>
             variant = "browser"
        /\ pc = "done" =>
             /\ DOMAIN results = {"url", "success", "error_message"}
             /\ DOMAIN results.url = Slots
             /\ results.success \in
                  (IF variant = "rest" THEN {"True", "False"} ELSE {"true", "false"})
             /\ Succeeded(results) => results.error_message = <<>>
             /\ Failed(results) => results.error_message # <<>>

\* A REST call returned a failure after one upload had succeeded.
C8_Witness ==
    /\ variant = "rest" /\ pc = "done"
    /\ Failed(results) /\ ~AllUrlsEmpty(results)
    /\ results.error_message # <<>>

\* The message names slot i and its file.
Identifies(msg, i) ==
    /\ Contains(msg, IntText(i))
    /\ Contains(msg, basename(node_inputs.img[i]))

\* C9, as stated: every failure message either variant returns holds the
\* slot index and the file name of the input that caused the failure.
C9_EveryFailureNamesItsInput ==
    (variant \in {"rest", "browser"} /\ pc = "done" /\ Failed(results)) =>
        \E i \in Slots : Present(i) /\ Identifies(results.error_message, i)

\* C9, amended: every failure message _upload_single_image builds, and so
\* the message a REST call returns when an upload failed, holds the index
\* and the base file name of the slot whose upload failed.
C9_UploadFailureNamesItsInput ==
    /\ \A j \in FailedAttempts :
         Identifies(attempts[j].error_message, attempts[j].index)
    /\ (variant = "rest" /\ pc = "done" /\ FailedAttempts # {}) =>
         /\ Failed(results)
         /\ Identifies(results.error_message, attempts[Min(FailedAttempts)].index)

\* The upload of slot 5 failed after that of slot 2 and the call returned.
C9_Witness ==
    /\ variant = "rest" /\ pc = "done"
    /\ Len(attempts) = 2 /\ ~attempts[2].success /\ attempts[2].index = 5
    /\ attempts[1].index = 2
    /\ Identifies(results.error_message, 5)
    /\ ~Identifies(results.error_message, 2)

(***************************************************************************)
(* Properties of a repeated call, under SpecRerun.                         *)
(***************************************************************************)
BothRunsSucceeded ==
    variant = "rest" /\ run = 2 /\ pc = "done" /\ results.success = "True"

SameOutcomeShape ==
    /\ \A i \in Slots : (results.url[i] # <<>>) <=> (prev.results.url[i] # <<>>)
    /\ results.success = prev.results.success
    /\ results.error_message = <<>> /\ prev.results.error_message = <<>>

\* C10, as stated: the repetition of a successful batch sends, for every
\* slot, a destination file name that differs from the earlier run's,
\* whatever the interval between the runs, and returns an outcome of the
\* same shape.
C10_RerunRenamesEverySlot ==
    BothRunsSucceeded =>
        /\ Len(sent) = Len(prev.sent)
        /\ \A k \in 1..Len(sent) :
             /\ sent[k].index = prev.sent[k].index
             /\ sent[k].filename # prev.sent[k].filename
        /\ SameOutcomeShape

\* C10, amended: the repetition sends, for every slot, a destination file
\* name that differs from the earlier run's exactly when the two uploads
\* read the clock in different seconds, and returns an outcome of the same
\* shape.
C10_RerunRenamesAcrossSeconds ==
    BothRunsSucceeded =>
        /\ Len(sent) = Len(prev.sent)
        /\ \A k \in 1..Len(sent) :
             /\ sent[k].index = prev.sent[k].index
             /\ (sent[k].filename # prev.sent[k].filename)
                  <=> (sent[k].t # prev.sent[k].t)
        /\ SameOutcomeShape

\* Two slots were uploaded twice, the first of them in different seconds.
C10_Witness ==
    /\ BothRunsSucceeded
    /\ Len(sent) = 2 /\ Len(prev.sent) = 2
    /\ sent[1].t # prev.sent[1].t
    /\ sent[1].filename # prev.sent[1].filename

(***************************************************************************)
(* Properties of one call of _upload_single_image.                         *)
(***************************************************************************)
\* The requests sent for slot i; a slot is uploaded at most once per call
\* of execute, so these are the requests of its one _upload_single_image.
PostsOf(i) == Cardinality({q \in 1..Len(sent) : sent[q].index = i})

\* The call ended in failure because the local file could not be read.
ReadFailed(a) == ~a.success /\ Contains(a.error_message, MSG_ERRNO)

\* The line call j logged: execute logs two lines before the loop and
\* nothing between the calls.
LinesBeforeLoop == 2
LineOf(j) == log[LinesBeforeLoop + j]

OneLinePerCall ==
    /\ pc \in {"loop", "exit"} => Len(log) = LinesBeforeLoop + Len(attempts)
    /\ \A j \in 1..Len(attempts) :
         /\ LineOf(j).level = (IF attempts[j].success THEN "info" ELSE "error")
         /\ Contains(LineOf(j).text, IntText(attempts[j].index))

\* C11, as stated: every call of _upload_single_image sends exactly one
\* POST, whatever its outcome, unreadable file included, and logs exactly
\* one line, info on success and error on failure.
C11_OnePostPerCall ==
    (variant = "rest") =>
        /\ \A j \in 1..Len(attempts) : PostsOf(attempts[j].index) = 1
        /\ OneLinePerCall

\* C11, amended: a call sends exactly one POST when the file was read and
\* none when it could not be read, and logs exactly one line, info on
\* success and error on failure.
C11_OnePostPerReadableCall ==
    (variant = "rest") =>
        /\ \A j \in 1..Len(attempts) :
             PostsOf(attempts[j].index) = (IF ReadFailed(attempts[j]) THEN 0 ELSE 1)
        /\ Len(sent) <= Len(attempts)
        /\ OneLinePerCall

\* The first call posted and succeeded, the second could not read its file.
C11_Witness ==
    /\ variant = "rest" /\ pc = "done"
    /\ Len(attempts) = 2 /\ attempts[1].success /\ ReadFailed(attempts[2])
    /\ Len(sent) = 1 /\ sent[1].index = attempts[1].index
    /\ Len(log) = LinesBeforeLoop + 2 /\ LineOf(2).level = "error"

(***************************************************************************)
(* Properties of the browser variant's URL mapping.                        *)
(***************************************************************************)
\* _upload_images returned: as many URLs were extracted as files submitted.
CountsMatch ==
    /\ variant = "browser" /\ pc \in {"close", "done"}
    /\ browser.text_content # NoKey
    /\ image_paths # <<>>
    /\ Len(Extracted) = Len(image_paths)

\* The k-th present slot, in ascending index order, holds the k-th extracted
\* URL, with the suffix appended exactly when the URL did not end with it.
ZippedInOrder ==
    /\ \A k \in 1..Len(image_paths) :
         /\ k > 1 => image_paths[k - 1].index < image_paths[k].index
         /\ Present(image_paths[k].index)
         /\ results.url[image_paths[k].index] =
              (IF EndsWith(Extracted[k], DL) THEN Extracted[k]
               ELSE Extracted[k] \o DL)
    /\ \A i \in Slots : Present(i) => \E k \in 1..Len(image_paths) : image_paths[k].index = i
    /\ \A i \in Slots : ~Present(i) => results.url[i] = <<>>
    /\ results.success = "true"
    /\ results.error_message = <<>>

\* C12, as stated: when the counts match, the URLs are zipped onto the
\* present slots in order, "?dl=1" is appended exactly when missing, absent
\* slots stay empty, success is "true" with an empty error message, and
\* every populated URL ends with exactly one "?dl=1".
C12_UrlsEndWithExactlyOneDl ==
    CountsMatch =>
        /\ ZippedInOrder
        /\ \A i \in Slots : Present(i) =>
             /\ EndsWith(results.url[i], DL)
             /\ ~EndsWith(results.url[i], DL \o DL)

\* C12, amended: as stated, except that every populated URL ends with
\* "?dl=1" (a URL extracted with the suffix repeated keeps the repetition).
C12_UrlsZippedWithDl ==
    CountsMatch =>
        /\ ZippedInOrder
        /\ \A i \in Slots : Present(i) => EndsWith(results.url[i], DL)

\* Two files, two URLs: the first already carries the suffix and is kept,
\* the second lacks it and gets it.
C12_Witness ==
    /\ CountsMatch /\ pc = "done"
    /\ Len(image_paths) = 2
    /\ Extracted = << <<POSTIMG, "k", "/", "b">> \o DL, <<POSTIMG, "k", "/", "a">> >>
    /\ results.url[image_paths[1].index] = <<POSTIMG, "k", "/", "b">> \o DL
    /\ results.url[image_paths[2].index] = <<POSTIMG, "k", "/", "a">> \o DL

====
